---- MODULE Spec2Model ----
(***************************************************************************)
(* Geological simulation core of vibe-city-2 (game/src/game.ts):           *)
(* heightfield generation and forces, tile derivation, resource placement, *)
(* river tracing, and the scheduler driven by the game loop and the keys.  *)
(*                                                                         *)
(* Numbers: a JavaScript number that holds a height, a noise value or a    *)
(* ratio is a fixed-point integer in units of 1/Scale.  Stored elevations  *)
(* (Math.round) are whole metres.  Clock values are whole milliseconds.    *)
(***************************************************************************)
EXTENDS Integers, Sequences, FiniteSets, TLC

Scale == 10000

\* side length of the grid (state.mapSize); the game uses 50
MapSize == 8

\* the seeds the ambient random source (Math.random) may start from
Seeds == {1, 5000}

\* number of restarts ('r' key presses) explored in one behaviour
MaxRestarts == 1

maxSteps == 50
speed == 200

bedrockTypes == <<"granite", "limestone", "sandstone", "shale">>

Min(a, b) == IF a < b THEN a ELSE b
Max(a, b) == IF a > b THEN a ELSE b
Abs(v) == IF v < 0 THEN -v ELSE v

(***************************************************************************)
(* Math.random: a deterministic stream.  The generator state r counts the  *)
(* calls made so far (modulo the period), Rand(r) is the value in [0,1)    *)
(* the next call returns, RngAfter(r, k) the state k calls later.          *)
(***************************************************************************)
RngModulus == 10007
RngAfter(r, k) == (r + k) % RngModulus
Rand(r) == (((r * 7901 + 4409) % RngModulus) * Scale) \div RngModulus

(***************************************************************************)
(* Math.exp, Math.sin, Math.cos in fixed point.                            *)
(***************************************************************************)
Mul(a, b) == (a * b) \div Scale

\* e^(-v) for 0 <= v < 1 by its Taylor series to the sixth power,
\* 1 - v(1 - v/2 (1 - v/3 (1 - v/4 (1 - v/5 (1 - v/6)))))
ExpSeries(v) ==
    Scale - Mul(v, Scale - Mul(v \div 2, Scale - Mul(v \div 3,
                Scale - Mul(v \div 4, Scale - Mul(v \div 5, Scale - (v \div 6))))))

Square(a) == Mul(a, a)

\* Math.exp(-u) for 0 <= u < 8, as (e^(-u/8))^8
ExpNeg(u) == Square(Square(Square(ExpSeries(u \div 8))))

HalfPi == 15708
Pi == 31416

\* t - t^3/3! + t^5/5! - t^7/7! + t^9/9! with t2 = t^2, as
\* t - (t^3/6)(1 - (t2/20)(1 - (t2/42)(1 - t2/72)))
SinTerms(t, t2) ==
    t - Mul(Mul(t, t2) \div 6,
            Scale - Mul(t2 \div 20, Scale - Mul(t2 \div 42, Scale - (t2 \div 72))))

\* sin t for -pi/2 <= t <= pi/2 by its Taylor series
SinSeries(t) == SinTerms(t, Square(t))

\* Math.sin(t) for -pi <= t <= 2*pi
Sin(t) ==
    SinSeries(IF t > Pi + HalfPi THEN t - 2 * Pi
              ELSE IF t > HalfPi THEN Pi - t
              ELSE IF t < -HalfPi THEN -Pi - t
              ELSE t)

\* Math.cos(t) for -pi <= t <= pi
Cos(t) == Sin(t + HalfPi)

(***************************************************************************)
(* Heightfield: heightmap[y][x], 0 <= x, y < size.                         *)
(***************************************************************************)
Idx(size) == 0 .. (size - 1)

\* the cells (y, x) in the order of "for y ... for x ..." over lo..hi
RowMajor(lo, hi) ==
    LET w == hi - lo + 1
    IN  IF w <= 0 THEN <<>>
        ELSE [k \in 1 .. (w * w) |-> <<lo + ((k - 1) \div w), lo + ((k - 1) % w)>>]

Put(h, y, x, v) == [h EXCEPT ![y] = [@ EXCEPT ![x] = v]]

\* the noise of a cell a hundred times as wide: 35 + (Math.random() - 0.5) * 800
createHeightmapWideNoise(size, r) ==
    [h |-> [y \in Idx(size) |-> [x \in Idx(size) |->
               35 * Scale + (Rand(RngAfter(r, y * size + x)) - (Scale \div 2)) * 800]],
     rng |-> RngAfter(r, size * size)]

\* cell (y, x) takes the (y * size + x)-th call of Math.random
createHeightmap(size, r) ==
    [h |-> [y \in Idx(size) |-> [x \in Idx(size) |->
               35 * Scale + (Rand(RngAfter(r, y * size + x)) - (Scale \div 2)) * 8]],
     rng |-> RngAfter(r, size * size)]

hillCenters ==
    << [x |-> 12, y |-> 15, strength |-> 12],
       [x |-> 35, y |-> 8,  strength |-> 10],
       [x |-> 28, y |-> 25, strength |-> 11],
       [x |-> 8,  y |-> 35, strength |-> 8],
       [x |-> 42, y |-> 32, strength |-> 10],
       [x |-> 20, y |-> 40, strength |-> 7],
       [x |-> 38, y |-> 18, strength |-> 9],
       [x |-> 15, y |-> 28, strength |-> 6] >>

maxRadius == 15

\* intensity of the step taken when the counter is k, in units of 1/Scale
Intensity(k) == Scale - ((k * Scale) \div maxSteps)

\* one hill's term: strength * falloff * intensity * 0.5 (strength is in tenths)
HillUplift(hill, x, y, intensity) ==
    LET d2 == (x - hill.x) * (x - hill.x) + (y - hill.y) * (y - hill.y)
    IN  IF d2 < maxRadius * maxRadius
        THEN LET falloff == ExpNeg((d2 * Scale * 9) \div (2 * maxRadius * maxRadius))
             IN  (hill.strength * falloff * intensity) \div (20 * Scale)
        ELSE 0

RECURSIVE TotalUplift(_, _, _, _)
TotalUplift(k, x, y, intensity) ==
    IF k > Len(hillCenters) THEN 0
    ELSE HillUplift(hillCenters[k], x, y, intensity) + TotalUplift(k + 1, x, y, intensity)

\* the k-th interior cell takes the (k-1)-th call of Math.random
UpliftNoise(r, k, intensity) ==
    ((Rand(RngAfter(r, k - 1)) - (Scale \div 2)) * intensity * 5) \div (100 * Scale)

RECURSIVE UpliftCells(_, _, _, _, _)
\* the heightfield after the first k interior cells
UpliftCells(h, r, cells, k, intensity) ==
    IF k = 0 THEN h
    ELSE [UpliftCells(h, r, cells, k - 1, intensity) EXCEPT ![cells[k][1]][cells[k][2]] =
            @ + TotalUplift(1, cells[k][2], cells[k][1], intensity)
              + UpliftNoise(r, k, intensity)]

applyTectonicUplift(heightmap, mapSize, intensity, r) ==
    LET cells == RowMajor(2, mapSize - 3)
    IN  [rng |-> RngAfter(r, Len(cells)),
         h |-> UpliftCells(heightmap, r, cells, Len(cells), intensity)]

(***************************************************************************)
(* Hydraulic erosion.                                                      *)
(***************************************************************************)
\* (dx, dy) in the order of "for dx = -1..1, for dy = -1..1", (0,0) skipped
ScanDxDy ==
    << <<-1, -1>>, <<-1, 0>>, <<-1, 1>>, <<0, -1>>, <<0, 1>>, <<1, -1>>, <<1, 0>>, <<1, 1>> >>

dropSteps == 30

\* one neighbour of the scan: best = [g, x, y] before it
Steeper(best, h, mapSize, x, y, nx, ny) ==
    IF nx >= 0 /\ nx < mapSize /\ ny >= 0 /\ ny < mapSize /\ h[y][x] - h[ny][nx] > best.g
    THEN [g |-> h[y][x] - h[ny][nx], x |-> nx, y |-> ny]
    ELSE best

RECURSIVE Steepest(_, _, _, _, _)
\* steepestGradient, nextX, nextY after the first k neighbours of the scan
Steepest(h, mapSize, x, y, k) ==
    IF k = 0 THEN [g |-> 0, x |-> x, y |-> y]
    ELSE Steeper(Steepest(h, mapSize, x, y, k - 1), h, mapSize, x, y,
                 x + ScanDxDy[k][1], y + ScanDxDy[k][2])

\* erosionRate = 0.4, the amount capped at 1.0
Erosion(steepestGradient) == Min((steepestGradient * 4) \div 10, Scale)

\* a capacity of 3.0
sedimentCapacityOfThree == 3 * Scale

sedimentCapacity == 2 * Scale

RECURSIVE DropTrace(_, _, _, _, _, _)
DropTrace(h, mapSize, x, y, sediment, step) ==
    IF step >= dropSteps THEN h
    ELSE IF x <= 2 \/ x >= mapSize - 3 \/ y <= 2 \/ y >= mapSize - 3 THEN h
    ELSE LET best == Steepest(h, mapSize, x, y, Len(ScanDxDy))
         IN  IF best.g <= 0 THEN Put(h, y, x, h[y][x] + sediment)
             ELSE LET erosion == Erosion(best.g)
                      carried == sediment + erosion
                      deposit == IF carried > sedimentCapacity
                                 THEN carried - sedimentCapacity ELSE 0
                  IN  DropTrace(Put(h, y, x, h[y][x] - erosion + deposit), mapSize,
                                best.x, best.y, carried - deposit, step + 1)

RECURSIVE DropMoves(_, _, _, _, _, _)
\* the passes of the loop "for step" of one drop that do not end at its first
\* line, in order: the cell, its height and the sediment carried when the
\* pass begins, whether a neighbour is strictly lower, the height of the
\* lowest neighbour (the cell's own when none is lower), and the height and
\* the sediment when the pass ends
DropMoves(h, mapSize, x, y, sediment, step) ==
    IF step >= dropSteps THEN <<>>
    ELSE IF x <= 2 \/ x >= mapSize - 3 \/ y <= 2 \/ y >= mapSize - 3 THEN <<>>
    ELSE LET best == Steepest(h, mapSize, x, y, Len(ScanDxDy))
             lower == \E nx \in {x - 1, x, x + 1} : \E ny \in {y - 1, y, y + 1} :
                          h[ny][nx] < h[y][x]
         IN  IF best.g <= 0
             THEN <<[x |-> x, y |-> y, height |-> h[y][x], sediment |-> sediment,
                     lower |-> lower, moved |-> FALSE, lowest |-> h[y][x] - best.g,
                     left |-> h[y][x] + sediment, carried |-> 0]>>
             ELSE LET erosion == Erosion(best.g)
                      carried == sediment + erosion
                      deposit == IF carried > sedimentCapacity
                                 THEN carried - sedimentCapacity ELSE 0
                  IN  <<[x |-> x, y |-> y, height |-> h[y][x], sediment |-> sediment,
                         lower |-> lower, moved |-> TRUE, lowest |-> h[y][x] - best.g,
                         left |-> h[y][x] - erosion + deposit,
                         carried |-> carried - deposit]>>
                      \o DropMoves(Put(h, y, x, h[y][x] - erosion + deposit), mapSize,
                                   best.x, best.y, carried - deposit, step + 1)

\* Math.floor(Math.random() * mapSize) at the k-th call of Math.random
RandomCell(r, k, mapSize) == (Rand(RngAfter(r, k)) * mapSize) \div Scale

RECURSIVE Drops(_, _, _, _)
\* the heightfield after the first n drops; drop n takes calls 2n-2 and 2n-1
Drops(h, mapSize, r, n) ==
    IF n = 0 THEN h
    ELSE DropTrace(Drops(h, mapSize, r, n - 1), mapSize,
                   RandomCell(r, 2 * n - 2, mapSize), RandomCell(r, 2 * n - 1, mapSize), 0, 0)

applyHydraulicErosion(heightmap, mapSize, r) ==
    [rng |-> RngAfter(r, mapSize * 4), h |-> Drops(heightmap, mapSize, r, mapSize * 2)]

(***************************************************************************)
(* Thermal erosion: in place, row-major; currentHeight is read once per    *)
(* cell, the neighbours are read as they are at the time of the visit.     *)
(***************************************************************************)
maxSlope == Scale \div 2

\* an erosionRate of 0.5
TransferOfHalf(heightDiff) == ((heightDiff - maxSlope) * 5) \div 10

\* (heightDiff - maxSlope) * erosionRate, erosionRate = 0.05
Transfer(heightDiff) == ((heightDiff - maxSlope) * 5) \div 100

RECURSIVE ThermalNeighbours(_, _, _, _, _)
ThermalNeighbours(h, x, y, currentHeight, k) ==
    IF k > Len(ScanDxDy) THEN h
    ELSE LET nx == x + ScanDxDy[k][1]
             ny == y + ScanDxDy[k][2]
             heightDiff == currentHeight - h[ny][nx]
         IN  IF heightDiff > maxSlope
             THEN LET transfer == Transfer(heightDiff)
                      h1 == Put(h, y, x, h[y][x] - transfer)
                  IN  ThermalNeighbours(Put(h1, ny, nx, h1[ny][nx] + transfer),
                                        x, y, currentHeight, k + 1)
             ELSE ThermalNeighbours(h, x, y, currentHeight, k + 1)

RECURSIVE ThermalTransfers(_, _, _, _, _)
\* the transfers of the visit of cell (x, y) from neighbour k on, in order:
\* the heights of the two cells when the transfer is applied, and the amount
ThermalTransfers(h, x, y, currentHeight, k) ==
    IF k > Len(ScanDxDy) THEN <<>>
    ELSE LET nx == x + ScanDxDy[k][1]
             ny == y + ScanDxDy[k][2]
             heightDiff == currentHeight - h[ny][nx]
         IN  IF heightDiff > maxSlope
             THEN LET transfer == Transfer(heightDiff)
                      h1 == Put(h, y, x, h[y][x] - transfer)
                  IN  <<[loser |-> h[y][x], receiver |-> h[ny][nx], amount |-> transfer]>>
                      \o ThermalTransfers(Put(h1, ny, nx, h1[ny][nx] + transfer),
                                          x, y, currentHeight, k + 1)
             ELSE ThermalTransfers(h, x, y, currentHeight, k + 1)

\* h with rows y-1 .. y+1 taken from visited
WithRows(h, visited, y) ==
    [h EXCEPT ![y - 1] = visited[y - 1], ![y] = visited[y], ![y + 1] = visited[y + 1]]

\* the visit of one interior cell; it changes rows y-1 .. y+1 only
ThermalCell(h, x, y) == WithRows(h, ThermalNeighbours(h, x, y, h[y][x], 1), y)

RECURSIVE ThermalCells(_, _, _)
\* the heightfield after the first k interior cells
ThermalCells(h, cells, k) ==
    IF k = 0 THEN h
    ELSE ThermalCell(ThermalCells(h, cells, k - 1), cells[k][2], cells[k][1])

applyThermalErosion(heightmap, mapSize) ==
    LET cells == RowMajor(2, mapSize - 3)
    IN  ThermalCells(heightmap, cells, Len(cells))

(***************************************************************************)
(* Edge smoothing.  In the loop over x the two assignments touch column x  *)
(* only, so the loop copies row 2 to row i and then row size-3 to row      *)
(* size-1-i; likewise the loop over y within each row.                     *)
(***************************************************************************)
SmoothRows(h, mapSize, i) ==
    LET top == [h EXCEPT ![i] = h[2]]
    IN  [top EXCEPT ![mapSize - 1 - i] = top[mapSize - 3]]

SmoothCols(h, mapSize, i) ==
    [y \in Idx(mapSize) |->
        LET left == [h[y] EXCEPT ![i] = h[y][2]]
        IN  [left EXCEPT ![mapSize - 1 - i] = left[mapSize - 3]]]

\* the body of "for i" of smoothEdges
SmoothRing(h, mapSize, i) == SmoothCols(SmoothRows(h, mapSize, i), mapSize, i)

\* smoothEdges with the outermost ring alone (i = 0)
smoothEdgesOuterRing(heightmap, mapSize) == SmoothRing(heightmap, mapSize, 0)

smoothEdges(heightmap, mapSize) == SmoothRing(SmoothRing(heightmap, mapSize, 0), mapSize, 1)

(***************************************************************************)
(* Resource placement.                                                     *)
(***************************************************************************)
\* 2*pi in units of 1/(1000*Scale), and 12.9898 and 78.233 reduced modulo it
TwoPiFine == 62831853
HashFactor == 129898000 % TwoPiFine
HashOffset == 782330000 % TwoPiFine

\* HashFactor * 32, * 32^2, * 32^3, reduced
HashFactor1 == (32 * HashFactor) % TwoPiFine
HashFactor2 == (32 * HashFactor1) % TwoPiFine
HashFactor3 == (32 * HashFactor2) % TwoPiFine

\* (seed * 12.9898) modulo 2*pi for 0 <= seed < 32^4, digit by digit in
\* base 32 so that no product leaves the 32-bit range
HashAngle(seed) ==
    ( (((seed % 32) * HashFactor) % TwoPiFine)
    + ((((seed \div 32) % 32) * HashFactor1) % TwoPiFine)
    + ((((seed \div 1024) % 32) * HashFactor2) % TwoPiFine)
    + (((seed \div 32768) * HashFactor3) % TwoPiFine) ) % TwoPiFine

\* JavaScript's v % 1 on a fixed-point value (the sign of v is kept)
Frac(v) == IF v >= 0 THEN v % Scale ELSE -((-v) % Scale)

\* random(seed) = (Math.sin(seed * 12.9898 + 78.233) % 1 + 1) / 2
random(seed) ==
    LET angle == (HashAngle(seed) + HashOffset) % TwoPiFine
    IN  (Frac(Sin(angle \div 1000)) + Scale) \div 2

Resource(type, abundance, seasonal, accessibility) ==
    [type |-> type, abundance |-> abundance, seasonal |-> seasonal,
     accessibility |-> accessibility]

Has(resources, type) == \E k \in 1 .. Len(resources) : resources[k].type = type

\* the condition of the push left out
WhenAlways(cond, resources) == resources

When(cond, resources) == IF cond THEN resources ELSE <<>>

Tenths(n) == (n * Scale) \div 10
Hundredths(n) == (n * Scale) \div 100

generateResources(geology, x, y) ==
    LET elev == geology.elevation
        wtd == geology.waterTableDepth
        water ==
            When(wtd < Scale,
                 <<Resource("spring", Scale - wtd, FALSE, geology.stability)>>)
            \o When(elev < 30 /\ geology.drainage > Tenths(7),
                    <<Resource("river", Tenths(8), FALSE, Tenths(9))>>)
            \o When(elev > 20 /\ elev < 60 /\ geology.drainage > Tenths(4),
                    <<Resource("seasonal_stream", Tenths(6), TRUE, Tenths(7))>>)
        moistureLevel == Scale - (wtd \div 10)
        hasNearbyWater == Has(water, "spring") \/ Has(water, "river")
                          \/ Has(water, "seasonal_stream")
        moistureBonus == IF hasNearbyWater THEN Tenths(3) ELSE (moistureLevel * 2) \div 10
        elevationBonus == ((elev - 30) * Scale * 2) \div 300
        food ==
            IF elev < 30 /\ geology.soilType # "rock"
            THEN When(random(x * 100 + y * 200 + 1) > Tenths(6) - moistureBonus,
                      <<Resource("berries", Min(Tenths(9), Tenths(5) + (moistureLevel * 4) \div 10),
                                 TRUE, Tenths(9))>>)
                 \o When(random(x * 80 + y * 180 + 10) > Tenths(7) - moistureBonus,
                         <<Resource("edible_plants",
                                    Min(Tenths(8), Tenths(4) + (moistureLevel * 4) \div 10),
                                    TRUE, Hundredths(95))>>)
            ELSE IF elev >= 30 /\ elev < 60 /\ geology.soilType # "rock"
            THEN When(random(x * 150 + y * 250 + 2) > Tenths(7) - elevationBonus,
                      <<Resource("nuts", Min(Tenths(8), Tenths(5) + elevationBonus),
                                 TRUE, Tenths(8))>>)
                 \o When(moistureLevel > Tenths(4) /\ random(x * 100 + y * 200 + 1) > Tenths(8),
                         <<Resource("berries", Tenths(6), TRUE, Tenths(8))>>)
            ELSE IF elev >= 60 /\ geology.soilType # "rock"
            THEN When(random(x * 300 + y * 400 + 11) > Hundredths(85),
                      <<Resource("edible_plants", Tenths(3), TRUE, Tenths(6))>>)
            ELSE <<>>
        game ==
            When(elev > 10 /\ elev < 70 /\ geology.stability > Tenths(6)
                 /\ random(x * 80 + y * 120 + 3) > Hundredths(75),
                 <<Resource("game_trail", Tenths(6), FALSE, geology.stability)>>)
        materials ==
            When(geology.bedrockType = "limestone"
                 /\ random(x * 200 + y * 300 + 4) > Hundredths(85),
                 <<Resource("flint", Tenths(7), FALSE, Scale - (geology.excavationCost \div 5))>>)
            \o When(geology.bedrockType = "granite" /\ elev > 50
                    /\ random(x * 250 + y * 350 + 5) > Tenths(9),
                    <<Resource("obsidian", Tenths(9), FALSE, Tenths(3))>>)
            \o When(geology.soilType = "clay" /\ wtd < 3 * Scale,
                    <<Resource("clay_deposit", Tenths(8), FALSE,
                               Scale - (geology.excavationCost \div 5))>>)
        wood ==
            IF geology.soilType # "rock"
            THEN When(elev < 40 /\ geology.soilType = "loam" /\ moistureLevel > Tenths(5)
                      /\ random(x * 180 + y * 280 + 6)
                           > Tenths(5) - (IF hasNearbyWater THEN Tenths(2) ELSE 0),
                      <<Resource("hardwood", Min(Tenths(9), Tenths(6) + (moistureLevel * 3) \div 10),
                                 FALSE, Tenths(8))>>)
                 \o When(elev > 25 /\ elev < 80
                         /\ random(x * 220 + y * 320 + 7)
                              > Tenths(6) - (IF elev > 50 THEN Tenths(2) ELSE 0),
                         <<Resource("softwood", IF elev > 50 THEN Tenths(8) ELSE Tenths(6), FALSE,
                                    IF elev > 60 THEN Tenths(7) ELSE Tenths(9))>>)
                 \o When(elev >= 20 /\ elev <= 45 /\ moistureLevel > Tenths(3)
                         /\ random(x * 250 + y * 350 + 12) > Tenths(7),
                         <<Resource("hardwood", Tenths(5), FALSE, Tenths(8)),
                           Resource("softwood", Tenths(5), FALSE, Tenths(9))>>)
            ELSE <<>>
        shelter ==
            IF elev > 30 /\ geology.bedrockType # "shale"
            THEN When(random(x * 300 + y * 400 + 8) > Hundredths(92),
                      <<Resource("cave", Scale, FALSE, Tenths(6))>>)
                 \o When(random(x * 350 + y * 450 + 9) > Hundredths(85),
                         <<Resource("rock_shelter", Tenths(8), FALSE, Tenths(8))>>)
            ELSE <<>>
    IN  water \o food \o game \o materials \o wood \o shelter

(***************************************************************************)
(* Tile derivation.                                                        *)
(***************************************************************************)
\* no clamp at all
Unclamped(elevation) == elevation

\* Math.max(5, Math.min(150, elevation))
ClampElevation(elevation) == Max(5 * Scale, Min(150 * Scale, elevation))

\* Math.round of a positive fixed-point value, in whole units
Round(v) == (v + (Scale \div 2)) \div Scale

\* the soil type chain with >= and <= for > and <
SoilTypeOfInclusive(elevation, soilNoise) ==
    IF elevation >= 45 * Scale THEN "rock"
    ELSE IF soilNoise >= Tenths(3) THEN "sand"
    ELSE IF soilNoise <= -Tenths(3) THEN "clay"
    ELSE "loam"

\* the soil type chain with ROCK above 50, the threshold of buildable
SoilTypeOfAbove50(elevation, soilNoise) ==
    IF elevation > 50 * Scale THEN "rock"
    ELSE IF soilNoise > Tenths(3) THEN "sand"
    ELSE IF soilNoise < -Tenths(3) THEN "clay"
    ELSE "loam"

\* the soil type chain with ROCK above 46
SoilTypeOfAbove46(elevation, soilNoise) ==
    IF elevation > 46 * Scale THEN "rock"
    ELSE IF soilNoise > Tenths(3) THEN "sand"
    ELSE IF soilNoise < -Tenths(3) THEN "clay"
    ELSE "loam"

\* the soil type chain of createTileFromHeight; elevation is the clamped one
SoilTypeOf(elevation, soilNoise) ==
    IF elevation > 45 * Scale THEN "rock"
    ELSE IF soilNoise > Tenths(3) THEN "sand"
    ELSE IF soilNoise < -Tenths(3) THEN "clay"
    ELSE "loam"

BedrockTypeOf(bedrockNoise) ==
    bedrockTypes[((((bedrockNoise + Scale) * 2) \div Scale) % Len(bedrockTypes)) + 1]

\* the GeologyData literal with the stability of SAND given to ROCK: the
\* chain tests CLAY alone
GeologyRockAsSand(elevation, waterTableNoise, soilNoise, bedrockNoise) ==
    LET soilType == SoilTypeOf(elevation, soilNoise)
    IN  [elevation |-> Round(elevation),
         soilType |-> soilType,
         soilDepth |-> Max(Scale \div 2, Min(8 * Scale, 3 * Scale + soilNoise * 2)),
         bedrockType |-> BedrockTypeOf(bedrockNoise),
         waterTableDepth |-> Max(0, 5 * Scale + waterTableNoise * 8),
         drainage |-> IF soilType = "sand" THEN Tenths(9)
                      ELSE IF soilType = "clay" THEN Tenths(2) ELSE Tenths(6),
         stability |-> IF soilType = "clay" THEN Tenths(4) ELSE Tenths(7),
         excavationCost |-> IF soilType = "rock" THEN 4 * Scale
                            ELSE IF soilType = "clay" THEN 2 * Scale ELSE Tenths(15)]

\* the GeologyData literal of createTileFromHeight, from the clamped
\* elevation and the three coordinate noises
Geology(elevation, waterTableNoise, soilNoise, bedrockNoise) ==
    LET soilType == SoilTypeOf(elevation, soilNoise)
    IN  [elevation |-> Round(elevation),
         soilType |-> soilType,
         soilDepth |-> Max(Scale \div 2, Min(8 * Scale, 3 * Scale + soilNoise * 2)),
         bedrockType |-> BedrockTypeOf(bedrockNoise),
         waterTableDepth |-> Max(0, 5 * Scale + waterTableNoise * 8),
         drainage |-> IF soilType = "sand" THEN Tenths(9)
                      ELSE IF soilType = "clay" THEN Tenths(2) ELSE Tenths(6),
         stability |-> IF soilType = "rock" THEN Scale
                       ELSE IF soilType = "clay" THEN Tenths(4) ELSE Tenths(7),
         excavationCost |-> IF soilType = "rock" THEN 4 * Scale
                            ELSE IF soilType = "clay" THEN 2 * Scale ELSE Tenths(15)]

\* the tile built from a clamped elevation and a geology
Tile(x, y, elevation, geology) ==
    [x |-> x, y |-> y, geology |-> geology,
     buildable |-> (elevation < 50 * Scale /\ geology.waterTableDepth > Scale \div 2),
     resources |-> generateResources(geology, x, y)]

createTileFromHeight(x, y, height) ==
    LET elevation == ClampElevation(height)
        waterTableNoise == Mul(Sin(x * 100), Cos(y * 100))
        soilNoise == Mul(Sin(x * 300), Sin(y * 400))
        bedrockNoise == Mul(Sin(x * 50), Cos(y * 50))
    IN  Tile(x, y, elevation, Geology(elevation, waterTableNoise, soilNoise, bedrockNoise))

(***************************************************************************)
(* The class VibeCity fills its own grid of mapSize 100, tile by tile, and  *)
(* shows the tile under a click in its own inspector.                      *)
(***************************************************************************)
\* the elevation of VibeCity.generateTile, "10-60 meter range" in its comment
TileElevation(x, y) ==
    Abs(Mul(Sin(x * 200), Cos(y * 200))
        + Mul(Sin(x * 400), Cos(y * 400)) \div 2
        + Mul(Sin(x * 800), Cos(y * 800)) \div 4) * 50 + 10 * Scale

\* VibeCity.generateTile: the tile has no resources
generateTile(x, y) ==
    LET geology == Geology(TileElevation(x, y), Mul(Sin(x * 100), Cos(y * 100)),
                           Mul(Sin(x * 300), Sin(y * 400)), Mul(Sin(x * 50), Cos(y * 50)))
    IN  [x |-> x, y |-> y, geology |-> geology,
         buildable |-> (TileElevation(x, y) < 50 * Scale
                        /\ geology.waterTableDepth > Scale \div 2)]

(***************************************************************************)
(* River tracing over a derived tile grid: terrain[y][x].                  *)
(***************************************************************************)
\* (dx, dy) in the order of "for dy = -1..1, for dx = -1..1", (0,0) skipped
ScanDyDx ==
    << <<-1, -1>>, <<0, -1>>, <<1, -1>>, <<-1, 0>>, <<1, 0>>, <<-1, 1>>, <<0, 1>>, <<1, 1>> >>

IsRiverSource(tile) ==
    /\ tile.geology.elevation > 60
    /\ (tile.geology.waterTableDepth < 2 * Scale \/ Has(tile.resources, "spring"))

\* the sources in the order the scan "for y, for x" finds them
riverSources(terrain, mapSize) ==
    LET found == SelectSeq(RowMajor(0, mapSize - 1),
                           LAMBDA c : IsRiverSource(terrain[c[1]][c[2]]))
    IN  [k \in 1 .. Len(found) |->
            [x |-> found[k][2], y |-> found[k][1],
             elevation |-> terrain[found[k][1]][found[k][2]].geology.elevation]]

\* one neighbour of the scan, a level neighbour taken as well (<= for <)
LowerOrLevel(best, terrain, mapSize, newX, newY) ==
    IF newX >= 0 /\ newX < mapSize /\ newY >= 0 /\ newY < mapSize
       /\ terrain[newY][newX].geology.elevation <= best.elevation
    THEN [x |-> newX, y |-> newY, elevation |-> terrain[newY][newX].geology.elevation]
    ELSE best

\* one neighbour of the scan: best = [x, y, elevation] before it
Lower(best, terrain, mapSize, newX, newY) ==
    IF newX >= 0 /\ newX < mapSize /\ newY >= 0 /\ newY < mapSize
       /\ terrain[newY][newX].geology.elevation < best.elevation
    THEN [x |-> newX, y |-> newY, elevation |-> terrain[newY][newX].geology.elevation]
    ELSE best

RECURSIVE Descent(_, _, _, _)
\* steepestX, steepestY, steepestElevation after the first k neighbours
Descent(terrain, mapSize, current, k) ==
    IF k = 0 THEN current
    ELSE Lower(Descent(terrain, mapSize, current, k - 1), terrain, mapSize,
               current.x + ScanDyDx[k][1], current.y + ScanDyDx[k][2])

\* the push of the river resource, whether the tile has one or not
AddRiverUnchecked(tile) ==
    [tile EXCEPT !.resources =
        Append(@, Resource("river", Tenths(9), FALSE, Hundredths(95)))]

\* the push of the river resource, if the tile has none yet
AddRiver(tile) ==
    IF Has(tile.resources, "river") THEN tile
    ELSE [tile EXCEPT !.resources =
            Append(@, Resource("river", Tenths(9), FALSE, Hundredths(95)))]

RECURSIVE RiverVisits(_, _, _, _)
\* the cells the while (true) loop of one source adds to visited, in order;
\* current = [x, y, elevation]
RiverVisits(terrain, mapSize, current, visited) ==
    IF <<current.x, current.y>> \in visited THEN <<>>
    ELSE LET steepest == Descent(terrain, mapSize, current, Len(ScanDyDx))
         IN  IF steepest.x = current.x /\ steepest.y = current.y THEN <<current>>
             ELSE IF steepest.elevation < 15 THEN <<current>>
             ELSE <<current>> \o RiverVisits(terrain, mapSize, steepest,
                                             visited \cup {<<current.x, current.y>>})

\* the cells (x, y) the loops of all the sources visit
RiverCells(terrain, mapSize, sources) ==
    UNION {{<<RiverVisits(terrain, mapSize, sources[k], {})[i].x,
              RiverVisits(terrain, mapSize, sources[k], {})[i].y>> :
                i \in 1 .. Len(RiverVisits(terrain, mapSize, sources[k], {}))} :
            k \in 1 .. Len(sources)}

\* updatedTerrain: the copy of the grid, a river on every visited cell
WithRivers(terrain, mapSize, cells) ==
    [y \in Idx(mapSize) |-> [x \in Idx(mapSize) |->
        IF <<x, y>> \in cells THEN AddRiver(terrain[y][x]) ELSE terrain[y][x]]]

generateRivers(terrain, mapSize) ==
    WithRivers(terrain, mapSize,
               RiverCells(terrain, mapSize, riverSources(terrain, mapSize)))

heightmapToTerrain(heightmap, mapSize) ==
    generateRivers([y \in Idx(mapSize) |->
                       [x \in Idx(mapSize) |-> createTileFromHeight(x, y, heightmap[y][x])]],
                   mapSize)

(***************************************************************************)
(* Game state.  Of GameState the model keeps the fields the simulation     *)
(* core owns: heightmap, terrain and simulation (mapSize is MapSize).      *)
(* now is the value performance.now() returns, rng the state of            *)
(* Math.random, restarts counts the restarts of the behaviour, and call    *)
(* is the handler or function that ran last (with the arguments and the    *)
(* result when it is a direct call of a pure function).  view holds what   *)
(* the presentation layer owns of the state: keysPressed, showWater, the   *)
(* canvas size and the tile the tile-info panel shows.  The camera and     *)
(* the frame counters are numbers the simulation never reads; they are     *)
(* not kept.                                                               *)
(***************************************************************************)
VARIABLES heightmap, terrain, simulation, now, rng, restarts, call, view

vars == <<heightmap, terrain, simulation, now, rng, restarts, call, view>>

\* keysPressed, showWater of createInitialState; the panel shows no tile;
\* the canvas has the size of the window (initWebGPU)
InitialView ==
    [keysPressed |-> {}, showWater |-> TRUE, tileInfo |-> <<>>,
     canvas |-> [width |-> 800, height |-> 600]]

\* newKeysPressed.add(key) of handleKeyDown
Pressed(v, key) == [v EXCEPT !.keysPressed = @ \cup {key}]

\* performance.now() when createGame generates the initial terrain
LoadTimes == {150}

\* the values of simulation.step at which the 'r' key is pressed
RestartSteps == {0, 1, 25, maxSteps}

Called(op) == [op |-> op]

\* the simulation literal of createInitialState
InitialSimulation ==
    [step |-> 0, maxSteps |-> maxSteps, speed |-> speed, lastTime |-> 0, isActive |-> TRUE]

\* generateTerrain(state): the fields it returns, given the state's
\* simulation record sim, the clock t and the random state r
Generated(seeded, sim, t) ==
    [heightmap |-> seeded.h,
     terrain |-> heightmapToTerrain(seeded.h, MapSize),
     simulation |-> [sim EXCEPT !.step = 0, !.lastTime = t],
     rng |-> seeded.rng]

generateTerrain(sim, t, r) == Generated(createHeightmap(MapSize, r), sim, t)

\* restartGeologicalSimulation(state): { ...generateTerrain(state),
\*   simulation: { ...state.simulation, isActive: true } }
restartGeologicalSimulation(sim, t, r) ==
    [generateTerrain(sim, t, r) EXCEPT !.simulation = [sim EXCEPT !.isActive = TRUE]]

\* shouldSimulate without the test step < maxSteps
shouldSimulateUnbounded(sim, currentTime) ==
    /\ sim.isActive
    /\ currentTime - sim.lastTime > sim.speed

\* shouldSimulate without the test isActive
shouldSimulateIgnoringPause(sim, currentTime) ==
    /\ sim.step < sim.maxSteps
    /\ currentTime - sim.lastTime > sim.speed

\* shouldSimulate with >= for > in the time gate
shouldSimulateAtInterval(sim, currentTime) ==
    /\ sim.isActive
    /\ sim.step < sim.maxSteps
    /\ currentTime - sim.lastTime >= sim.speed

shouldSimulate(sim, currentTime) ==
    /\ sim.isActive
    /\ sim.step < sim.maxSteps
    /\ currentTime - sim.lastTime > sim.speed

\* the last two functions of the pipe, thermal erosion and edge smoothing,
\* on the value acc = [h, rng] of hydraulic erosion
PipeThermalSmooth(acc, mapSize) ==
    [rng |-> acc.rng, h |-> smoothEdges(applyThermalErosion(acc.h, mapSize), mapSize)]

\* the last three functions of the pipe on the value acc of uplift
PipeHydraulicThermalSmooth(acc, mapSize) ==
    PipeThermalSmooth(applyHydraulicErosion(acc.h, mapSize, acc.rng), mapSize)

\* the pipe with thermal erosion ahead of hydraulic erosion
SimulationStepThermalFirst(h, mapSize, intensity, r) ==
    LET uplifted == applyTectonicUplift(h, mapSize, intensity, r)
        eroded == applyHydraulicErosion(applyThermalErosion(uplifted.h, mapSize),
                                        mapSize, uplifted.rng)
    IN  [rng |-> eroded.rng, h |-> smoothEdges(eroded.h, mapSize)]

\* the pipe of updateGeologicalSimulation: fns.reduce((acc, fn) => fn(acc), value)
\* over uplift, hydraulic erosion, thermal erosion, edge smoothing.
\* Returns [h, rng].
SimulationStep(h, mapSize, intensity, r) ==
    PipeHydraulicThermalSmooth(applyTectonicUplift(h, mapSize, intensity, r), mapSize)

\* the state updateGeologicalSimulation returns, from the value of the pipe
\* the new state with the new heightfield and the tile grid of the old one
SteppedKeepingTiles(acc, sim, t) ==
    [heightmap |-> acc.h,
     terrain |-> terrain,
     simulation |-> [sim EXCEPT !.step = sim.step + 1, !.lastTime = t],
     rng |-> acc.rng]

Stepped(acc, sim, t) ==
    [heightmap |-> acc.h,
     terrain |-> heightmapToTerrain(acc.h, MapSize),
     simulation |-> [sim EXCEPT !.step = sim.step + 1, !.lastTime = t],
     rng |-> acc.rng]

\* updateGeologicalSimulation(state), for a state that shouldSimulate
updateGeologicalSimulation(h, sim, t, r) ==
    Stepped(SimulationStep(h, MapSize, Intensity(sim.step), r), sim, t)

\* createGame up to the first frame: createInitialState, then generateTerrain
Init ==
    /\ now \in LoadTimes
    /\ \E seed \in Seeds : \E g \in {generateTerrain(InitialSimulation, now, seed)} :
         /\ heightmap = g.heightmap
         /\ terrain = g.terrain
         /\ simulation = g.simulation
         /\ rng = g.rng
    /\ restarts = 0
    /\ call = Called("createGame")
    /\ view = InitialView

\* the clock readings of interest: the step interval after the last step,
\* and one millisecond later
ClockReadings == {simulation.lastTime + speed, simulation.lastTime + speed + 1}

ClockAdvance ==
    /\ \E t \in ClockReadings : t > now /\ now' = t
    /\ call' = Called("clock")
    /\ UNCHANGED <<heightmap, terrain, simulation, rng, restarts, view>>

\* one frame of gameLoop: updateGeologicalSimulation
GameLoop ==
    /\ IF shouldSimulate(simulation, now)
       THEN \E u \in {updateGeologicalSimulation(heightmap, simulation, now, rng)} :
                /\ heightmap' = u.heightmap
                /\ terrain' = u.terrain
                /\ simulation' = u.simulation
                /\ rng' = u.rng
       ELSE UNCHANGED <<heightmap, terrain, simulation, rng>>
    /\ call' = Called("gameLoop")
    /\ UNCHANGED <<now, restarts, view>>

\* handleKeyDown, case ' '
TogglePause ==
    /\ simulation' = [simulation EXCEPT !.isActive = ~simulation.isActive]
    /\ view' = Pressed(view, " ")
    /\ call' = Called("keydown space")
    /\ UNCHANGED <<heightmap, terrain, now, rng, restarts>>

\* handleKeyDown, case 'r'
Restart ==
    /\ restarts < MaxRestarts
    /\ simulation.step \in RestartSteps
    /\ \E g \in {restartGeologicalSimulation(simulation, now, rng)} :
           /\ heightmap' = g.heightmap
           /\ terrain' = g.terrain
           /\ simulation' = g.simulation
           /\ rng' = g.rng
    /\ restarts' = restarts + 1
    /\ view' = Pressed(view, "r")
    /\ call' = Called("keydown r")
    /\ UNCHANGED now

Next == ClockAdvance \/ GameLoop \/ TogglePause \/ Restart

Spec == Init /\ [][Next]_vars

(***************************************************************************)
(* Properties of the scheduler.                                            *)
(***************************************************************************)
\* STEPPING: active and below maxSteps
Stepping == simulation.isActive /\ simulation.step < maxSteps

\* the time since the last step, as the next frame reads it
Elapsed == now - simulation.lastTime

Tick == call' = Called("gameLoop")

KeyRestart == call' = Called("keydown r") /\ restarts' = restarts + 1

Frozen ==
    /\ simulation'.step = simulation.step
    /\ simulation'.lastTime = simulation.lastTime
    /\ heightmap' = heightmap
    /\ terrain' = terrain

\* C1: after a restart (the 'r' key) from any reachable state the step
\* counter is 0, the heightfield is a freshly generated one and the active
\* flag is true, also when the simulation was paused or had reached maxSteps.
C1_RestartResets ==
    [][KeyRestart =>
          /\ simulation'.step = 0
          /\ heightmap' = createHeightmap(MapSize, rng).h
          /\ simulation'.isActive]_vars

\* C2: in every reachable state 0 <= step <= maxSteps, and once step =
\* maxSteps no tick changes the step counter, the heightfield or the tile
\* grid, whatever the clock reading and the pause flag.
C2_StepBoundedDoneTerminal ==
    /\ [](simulation.step >= 0 /\ simulation.step <= 50)
    /\ [][simulation.step = 50 /\ Tick =>
             /\ simulation'.step = simulation.step
             /\ heightmap' = heightmap
             /\ terrain' = terrain]_vars

\* a tick has run in DONE with the simulation active and the interval elapsed
C2_Witness ==
    /\ call = Called("gameLoop")
    /\ simulation.step = 50
    /\ simulation.isActive
    /\ Elapsed > 200

\* C3: while the simulation is paused, no tick and no clock reading changes
\* the step counter, the heightfield, the tile grid or the last-step time;
\* the pause toggle flips the active flag and changes none of these either.
C3_PausedFrozen ==
    [][/\ (~simulation.isActive /\ restarts' = restarts => Frozen)
       /\ (call' = Called("keydown space") =>
              /\ Frozen
              /\ simulation' = [simulation EXCEPT !.isActive = ~simulation.isActive])]_vars

\* a tick has run while paused, below maxSteps, with the interval elapsed
C3_Witness ==
    /\ call = Called("gameLoop")
    /\ ~simulation.isActive
    /\ simulation.step >= 1
    /\ simulation.step < maxSteps
    /\ Elapsed > speed

\* C4, as claimed: in STEPPING a tick performs a simulation step if and only
\* if the time elapsed since the last step is >= the step interval of 200 ms.
C4_StepsAtInterval ==
    [][Stepping /\ Tick => (simulation'.step = simulation.step + 1 <=> Elapsed >= 200)]_vars

\* C4, as the code has it: in STEPPING a tick performs a simulation step if
\* and only if the time elapsed since the last step is > 200 ms; a tick with
\* exactly 200 ms elapsed performs none.
C4_StepsAfterInterval ==
    [][Stepping /\ Tick =>
          /\ simulation'.step = simulation.step + 1 <=> Elapsed > 200
          /\ simulation'.step # simulation.step + 1 => Frozen]_vars

\* a tick has run in STEPPING with exactly the interval elapsed, and has
\* performed no step
C4_Witness ==
    /\ call = Called("gameLoop")
    /\ Stepping
    /\ Elapsed = 200

\* C5: a tick that is gated open applies uplift, hydraulic erosion, thermal
\* erosion and edge smoothing to the heightfield in this order, rebuilds the
\* tile grid from the result, adds 1 to step and stamps the last-step time
\* with the clock; a tick that is not gated open changes none of these.
C5_TickPipeline ==
    [][Tick =>
          IF simulation.isActive /\ simulation.step < simulation.maxSteps /\ Elapsed > speed
          THEN \E uplifted \in {applyTectonicUplift(heightmap, MapSize,
                                                     Intensity(simulation.step), rng)} :
               \E eroded \in {applyHydraulicErosion(uplifted.h, MapSize, uplifted.rng)} :
               \E weathered \in {applyThermalErosion(eroded.h, MapSize)} :
                   /\ heightmap' = smoothEdges(weathered, MapSize)
                   /\ terrain' = heightmapToTerrain(heightmap', MapSize)
                   /\ simulation'.step = simulation.step + 1
                   /\ simulation'.lastTime = now
                   /\ simulation'.isActive = simulation.isActive
          ELSE Frozen /\ simulation' = simulation]_vars

\* a gated-open tick has just run: the step is stamped with the clock
C5_Witness ==
    /\ call = Called("gameLoop")
    /\ simulation.step >= 2
    /\ simulation.lastTime = now

(***************************************************************************)
(* The forces on arrays.  A number[][] is an array of references to rows:  *)
(* heap[ref] is the number[] with reference ref, and s = [heap, array] is  *)
(* a heap with the array (y to the reference of row y) of a heightfield.   *)
(***************************************************************************)
\* the heightfield the array holds
Deref(s) == [y \in DOMAIN s.array |-> s.heap[s.array[y]]]

\* a heightfield in rows of its own: row y has reference y + 1
Allocated(h, size) == [heap |-> [ref \in 1 .. size |-> h[ref - 1]],
                       array |-> [y \in Idx(size) |-> y + 1]]

\* [...heightmap]: a new outer array on the rows of the old one
CopiedOuterArray(s, size) == s

\* heightmap.map(row => [...row]): a new outer array of new rows
CopiedRows(s, size) ==
    [heap |-> s.heap \o [k \in 1 .. size |-> s.heap[s.array[k - 1]]],
     array |-> [y \in Idx(size) |-> Len(s.heap) + y + 1]]

\* the writes result[y][x] = ... that leave the heightfield h in result
Written(result, h) ==
    [heap |-> [ref \in 1 .. Len(result.heap) |->
                  IF \E y \in DOMAIN result.array : result.array[y] = ref
                  THEN h[CHOOSE y \in DOMAIN result.array : result.array[y] = ref]
                  ELSE result.heap[ref]],
     array |-> result.array]

UpliftOnArrays(s, mapSize, intensity, r) ==
    Written(CopiedRows(s, mapSize),
            applyTectonicUplift(Deref(CopiedRows(s, mapSize)), mapSize, intensity, r).h)

HydraulicOnArrays(s, mapSize, r) ==
    Written(CopiedRows(s, mapSize),
            applyHydraulicErosion(Deref(CopiedRows(s, mapSize)), mapSize, r).h)

ThermalOnArrays(s, mapSize) ==
    Written(CopiedRows(s, mapSize),
            applyThermalErosion(Deref(CopiedRows(s, mapSize)), mapSize))

SmoothOnArrays(s, mapSize) ==
    Written(CopiedRows(s, mapSize), smoothEdges(Deref(CopiedRows(s, mapSize)), mapSize))

\* the pipe of updateGeologicalSimulation on state.heightmap
PipeOnArrays(s, mapSize, intensity, r) ==
    SmoothOnArrays(
        ThermalOnArrays(
            HydraulicOnArrays(UpliftOnArrays(s, mapSize, intensity, r), mapSize,
                              applyTectonicUplift(Deref(s), mapSize, intensity, r).rng),
            mapSize),
        mapSize)

\* the force named, on arrays
ForceOnArrays(force, s, mapSize, r) ==
    CASE force = "uplift" -> UpliftOnArrays(s, mapSize, Intensity(0), r)
      [] force = "hydraulic" -> HydraulicOnArrays(s, mapSize, r)
      [] force = "thermal" -> ThermalOnArrays(s, mapSize)
      [] force = "smooth" -> SmoothOnArrays(s, mapSize)
      [] force = "pipe" -> PipeOnArrays(s, mapSize, Intensity(0), r)

(***************************************************************************)
(* Direct calls of the pure functions, on arguments drawn from bounded     *)
(* sets.  The game state is the one createInitialState returns; call holds *)
(* the arguments first and the call with its result afterwards.            *)
(***************************************************************************)
\* largest side length of the heightfields passed to the forces
MaxFieldSize == 7

\* state.mapSize of createInitialState
GameMapSize == 50

\* heights within the range the forces are documented to keep
FieldHeights == <<-50 * Scale, 0, 35 * Scale + 1234, 60 * Scale + 1, 250 * Scale>>

\* heights far outside the range of elevations, and around its ends
ExtremeHeights ==
    <<-10000 * Scale, 5 * Scale - 1, 5 * Scale, 45 * Scale, 45 * Scale + 1,
      150 * Scale, 150 * Scale + 1, 10000 * Scale>>

Patterns == {<<1, 0, 0>>, <<0, 1, 2>>, <<1, 1, 1>>, <<1, 2, 3>>, <<2, 1, 4>>, <<3, 2, 0>>,
             <<2, 3, 1>>, <<1, 3, 2>>, <<3, 1, 3>>}

\* the size x size heightfield that takes its heights from levels by pattern p
Heightfield(size, p, levels) ==
    [y \in Idx(size) |-> [x \in Idx(size) |->
        levels[((x * p[1] + y * p[2] + p[3]) % Len(levels)) + 1]]]

\* the values of simulation.step the pipe is called at
CallSteps == {0, 25, maxSteps - 1}

SoilElevations ==
    {5 * Scale, 40 * Scale, 45 * Scale - 1, 45 * Scale, 45 * Scale + 1, 46 * Scale,
     50 * Scale, 150 * Scale}

SoilNoises ==
    {-Scale, -Tenths(3) - 1, -Tenths(3), -Tenths(3) + 1, 0, Tenths(3) - 1, Tenths(3),
     Tenths(3) + 1, Scale}

ForceArguments ==
    {[op |-> "heightfield", size |-> n, h |-> Heightfield(n, p, FieldHeights)] :
        n \in 5 .. MaxFieldSize, p \in Patterns}

DeriveArguments ==
    {[op |-> "elevations", size |-> n, h |-> Heightfield(n, p, ExtremeHeights)] :
        n \in {MaxFieldSize, GameMapSize}, p \in {<<1, 1, 1>>, <<1, 3, 2>>, <<3, 2, 0>>}}

SoilArguments ==
    {[op |-> "soil", elevation |-> e, soilNoise |-> n] :
        e \in SoilElevations, n \in SoilNoises}

\* heights around the buildable threshold of 50, above and below the point
\* where Math.round turns to 50
ThresholdHeights ==
    <<40 * Scale, 49 * Scale + 4999, 49 * Scale + 5000, 50 * Scale - 1, 50 * Scale,
      50 * Scale + 1, 61 * Scale>>

ThresholdArguments ==
    {[op |-> "elevations", size |-> MaxFieldSize,
      h |-> Heightfield(MaxFieldSize, p, ThresholdHeights)] : p \in {<<1, 1, 1>>, <<1, 3, 2>>}}

\* cells (x, y) of the grid; the flint chance is above 0.85 at the last two
TileCells == {<<0, 0>>, <<1, 0>>, <<3, 1>>}

\* water table noise for a depth of exactly 0.5, just above it, and 5
WaterTableNoises == {-5625, -5624, 0}

\* bedrock noise for GRANITE, LIMESTONE, SANDSTONE and SHALE
BedrockNoises == {-Scale, -4000, 2000, 6000}

\* arguments for the body of createTileFromHeight, the three noises given
TileArguments ==
    {[op |-> "noises", x |-> c[1], y |-> c[2], height |-> e, waterTableNoise |-> w,
      soilNoise |-> n, bedrockNoise |-> b] :
        c \in TileCells,
        e \in {40 * Scale, 45 * Scale + 5000, 49 * Scale + 5000, 50 * Scale, 61 * Scale},
        w \in WaterTableNoises, n \in {-5000, 0, 5000}, b \in BedrockNoises}

\* heights of a relief: a slope from sources (above 60) down to ground below
\* 15, and level ground above 60 between higher ground
RiverHeights ==
    <<90 * Scale, 80 * Scale, 70 * Scale, 65 * Scale, 50 * Scale, 40 * Scale, 30 * Scale,
      20 * Scale, 14 * Scale, 75 * Scale, 61 * Scale, 61 * Scale, 61 * Scale, 75 * Scale>>

\* the tile grid of a relief whose water table is 1.0 deep everywhere
Relief(size, p) ==
    [y \in Idx(size) |-> [x \in Idx(size) |->
        Tile(x, y, Heightfield(size, p, RiverHeights)[y][x],
             Geology(Heightfield(size, p, RiverHeights)[y][x], -5000, 5000, 2000))]]

RiverArguments ==
    {[op |-> "tiles", size |-> n, terrain |-> Relief(n, p)] :
        n \in 3 .. MaxFieldSize, p \in Patterns}

\* cells (x, y) of the grid of VibeCity, within the domain of Sin and Cos
GridCells == {<<x, y>> : x \in {0, 10, 30, 49, 50, 78}, y \in {0, 10, 39}}

CellArguments == {[op |-> "cell", x |-> c[1], y |-> c[2]] : c \in GridCells}

\* grid sizes below and at the least size with an interior, 5
ConstructionSizes == {1, 4, 5}

SizeArguments == {[op |-> "size", size |-> n] : n \in ConstructionSizes}

\* a heightfield within the range of generation: a peak of 39 at (2, 2),
\* 38.4 at the neighbour (3, 3) that the scan reaches last, 31 elsewhere
PeakField ==
    [y \in Idx(5) |-> [x \in Idx(5) |->
        IF x = 2 /\ y = 2 THEN 39 * Scale
        ELSE IF x = 3 /\ y = 3 THEN 38 * Scale + 4000
        ELSE 31 * Scale]]

PeakArguments == {[op |-> "heightfield", size |-> 5, h |-> PeakField]}

\* a 15 x 15 heightfield with a path of 44 interior cells that falls by 3
\* from cell to cell: rows 3, 5, 7, 9, 11 from x = 3 to 10, joined at their
\* ends in turn, between walls of 500
LaneField ==
    [y \in Idx(15) |-> [x \in Idx(15) |->
        IF x < 3 \/ x > 10 \/ y < 3 \/ y > 11 THEN 500 * Scale
        ELSE IF y % 2 = 1
             THEN 300 * Scale
                  - 3 * Scale * (9 * ((y - 3) \div 2)
                                 + (IF (y - 3) % 4 = 0 THEN x - 3 ELSE 10 - x))
        ELSE IF x = (IF (y - 4) % 4 = 0 THEN 10 ELSE 3)
             THEN 300 * Scale - 3 * Scale * (9 * ((y - 4) \div 2) + 8)
        ELSE 500 * Scale]]

\* the cells (x, y) a drop starts at: the head of the path, a cell 5 moves
\* before its end, a cell next to the border, a border cell
DropStarts == {<<3, 3>>, <<6, 11>>, <<10, 3>>, <<2, 5>>}

DropArguments ==
    {[op |-> "dropStart", size |-> 15, h |-> LaneField, x |-> c[1], y |-> c[2]] :
        c \in DropStarts}

InitCalls ==
    /\ heightmap = <<>>
    /\ terrain = <<>>
    /\ simulation = InitialSimulation
    /\ now = 0
    /\ rng \in Seeds
    /\ restarts = 0
    /\ view = InitialView
    /\ call \in ForceArguments \cup DeriveArguments \cup SoilArguments
                \cup ThresholdArguments \cup TileArguments \cup RiverArguments
                \cup CellArguments \cup SizeArguments \cup PeakArguments
                \cup DropArguments

CallSmoothEdges ==
    /\ call.op = "heightfield"
    /\ call' = [op |-> "smoothEdges", size |-> call.size, from |-> call.h,
                h |-> smoothEdges(call.h, call.size)]
    /\ UNCHANGED <<heightmap, terrain, simulation, now, rng, restarts, view>>

\* the pipe of updateGeologicalSimulation at step k
CallSimulationStep ==
    /\ call.op = "heightfield"
    /\ \E k \in CallSteps :
         \E acc \in {SimulationStep(call.h, call.size, Intensity(k), rng)} :
             /\ call' = [op |-> "step", size |-> call.size, from |-> call.h,
                         step |-> k, h |-> acc.h]
             /\ rng' = acc.rng
    /\ UNCHANGED <<heightmap, terrain, simulation, now, restarts, view>>

CallHeightmapToTerrain ==
    /\ call.op = "elevations"
    /\ call' = [op |-> "heightmapToTerrain", size |-> call.size, from |-> call.h,
                terrain |-> heightmapToTerrain(call.h, call.size)]
    /\ UNCHANGED <<heightmap, terrain, simulation, now, rng, restarts, view>>

CallSoilType ==
    /\ call.op = "soil"
    /\ call' = [op |-> "soilType", elevation |-> call.elevation,
                soilNoise |-> call.soilNoise,
                soilType |-> SoilTypeOf(call.elevation, call.soilNoise)]
    /\ UNCHANGED <<heightmap, terrain, simulation, now, rng, restarts, view>>

\* createTileFromHeight from the clamp on, with the noises of the cell given
CallCreateTile ==
    /\ call.op = "noises"
    /\ \E elevation \in {ClampElevation(call.height)} :
         call' = [op |-> "tile", height |-> call.height,
                  tile |-> Tile(call.x, call.y, elevation,
                                Geology(elevation, call.waterTableNoise, call.soilNoise,
                                        call.bedrockNoise))]
    /\ UNCHANGED <<heightmap, terrain, simulation, now, rng, restarts, view>>

\* generateRivers, with the cells each source's loop visited
CallGenerateRivers ==
    /\ call.op = "tiles"
    /\ \E sources \in {riverSources(call.terrain, call.size)} :
         call' = [op |-> "generateRivers", size |-> call.size, from |-> call.terrain,
                  terrain |-> generateRivers(call.terrain, call.size),
                  sources |-> sources,
                  traces |-> [k \in 1 .. Len(sources) |->
                                 RiverVisits(call.terrain, call.size, sources[k], {})]]
    /\ UNCHANGED <<heightmap, terrain, simulation, now, rng, restarts, view>>

\* VibeCity.generateTerrain fills cell (x, y) of its grid
CallGenerateTile ==
    /\ call.op = "cell"
    /\ call' = [op |-> "generateTile", tile |-> generateTile(call.x, call.y)]
    /\ UNCHANGED <<heightmap, terrain, simulation, now, rng, restarts, view>>

\* createHeightmap(size): it returns the grid for every size
CallCreateHeightmap ==
    /\ call.op = "size"
    /\ \E acc \in {createHeightmap(call.size, rng)} :
         /\ call' = [op |-> "createHeightmap", size |-> call.size, h |-> acc.h]
         /\ rng' = acc.rng
    /\ UNCHANGED <<heightmap, terrain, simulation, now, restarts, view>>

\* the visit of the first interior cell by applyThermalErosion, with the
\* transfers it applies
CallThermalCell ==
    /\ call.op = "heightfield"
    /\ call' = [op |-> "thermalCell", size |-> call.size, from |-> call.h,
                h |-> ThermalCell(call.h, 2, 2),
                transfers |-> ThermalTransfers(call.h, 2, 2, call.h[2][2], 1)]
    /\ UNCHANGED <<heightmap, terrain, simulation, now, rng, restarts, view>>

\* one drop of applyHydraulicErosion from the start cell given, with the
\* passes of its loop
CallDropTrace ==
    /\ call.op = "dropStart"
    /\ call' = [op |-> "drop", size |-> call.size, from |-> call.h,
                h |-> DropTrace(call.h, call.size, call.x, call.y, 0, 0),
                moves |-> DropMoves(call.h, call.size, call.x, call.y, 0, 0)]
    /\ UNCHANGED <<heightmap, terrain, simulation, now, rng, restarts, view>>

\* a force, or the pipe of a tick, called with the caller's array
CallForceOnArrays ==
    /\ call.op = "heightfield"
    /\ \E force \in {"uplift", "hydraulic", "thermal", "smooth", "pipe"} :
         \E s \in {Allocated(call.h, call.size)} :
             call' = [op |-> "onArrays", force |-> force, size |-> call.size,
                      from |-> call.h, caller |-> s,
                      returned |-> ForceOnArrays(force, s, call.size, rng)]
    /\ UNCHANGED <<heightmap, terrain, simulation, now, rng, restarts, view>>

NextCalls ==
    \/ CallGenerateRivers
    \/ CallSmoothEdges
    \/ CallSimulationStep
    \/ CallHeightmapToTerrain
    \/ CallSoilType
    \/ CallCreateTile
    \/ CallGenerateTile
    \/ CallCreateHeightmap
    \/ CallThermalCell
    \/ CallDropTrace
    \/ CallForceOnArrays

SpecCalls == InitCalls /\ [][NextCalls]_vars

(***************************************************************************)
(* Properties of the pure functions.                                       *)
(***************************************************************************)
EdgesSmoothed(h, size) ==
    \A i \in {0, 1} : \A k \in Idx(size) :
        /\ h[i][k] = h[2][k]
        /\ h[size - 1 - i][k] = h[size - 3][k]
        /\ h[k][i] = h[k][2]
        /\ h[k][size - 1 - i] = h[k][size - 3]

\* C6: after a simulation step, and after smoothEdges, on a heightfield of
\* size >= 5, rows and columns 0 and 1 equal row and column 2, and rows and
\* columns size-1 and size-2 equal row and column size-3, corners included.
C6_EdgesSmoothed ==
    call.op \in {"smoothEdges", "step"} => EdgesSmoothed(call.h, call.size)

\* smoothEdges or a step has run on a heightfield of size > 5 whose border
\* rows and columns differed from their neighbours
C6_Witness ==
    /\ call.op \in {"smoothEdges", "step"}
    /\ call.size > 5
    /\ call.from[0][0] # call.from[2][0]
    /\ call.from[1][call.size - 1] # call.from[1][call.size - 3]
    /\ call.h[2][2] # call.h[2][3]

TileInRange(tile) ==
    /\ tile.geology.elevation >= 5
    /\ tile.geology.elevation <= 150
    /\ tile.geology.drainage >= 0
    /\ tile.geology.drainage <= Scale
    /\ tile.geology.stability >= 0
    /\ tile.geology.stability <= Scale
    /\ tile.geology.excavationCost >= Scale
    /\ tile.geology.excavationCost <= 5 * Scale
    /\ 2 * tile.geology.soilDepth >= Scale
    /\ tile.geology.soilDepth <= 8 * Scale
    /\ tile.geology.waterTableDepth >= 0

C10_SoilClassification ==
    call.op = "soilType" =>
        call.soilType =
            CASE call.elevation > 450000 -> "rock"
              [] call.elevation <= 450000 /\ call.soilNoise > 3000 -> "sand"
              [] call.elevation <= 450000 /\ call.soilNoise < -3000 -> "clay"
              [] OTHER -> "loam"

\* the soil type has been taken at elevation exactly 45 with noise exactly 0.3
C10_Witness ==
    /\ call.op = "soilType"
    /\ call.elevation = 450000
    /\ call.soilNoise = 3000
    /\ call.soilType = "loam"

\* the tiles of the last call: the grid heightmapToTerrain derived, or the
\* tile createTileFromHeight built
DerivedTiles ==
    IF call.op = "heightmapToTerrain"
    THEN {call.terrain[y][x] : x \in Idx(call.size), y \in Idx(call.size)}
    ELSE IF call.op = "tile" THEN {call.tile} ELSE {}

\* C11, as claimed: the soil type at elevation 50 with soil noise 0 is LOAM.
C11_Elevation50Loam ==
    call.op = "soilType" /\ call.elevation = 500000 /\ call.soilNoise = 0 =>
        call.soilType = "loam"

\* C11, as the code has it: the soil type at elevation 50 with soil noise 0
\* is ROCK, the elevation being above 45.
C11_Elevation50Rock ==
    call.op = "soilType" /\ call.elevation = 500000 /\ call.soilNoise = 0 =>
        call.soilType = "rock"

\* the soil type has been taken at elevation 50 with soil noise 0
C11_Witness ==
    /\ call.op = "soilType"
    /\ call.elevation = 50 * Scale
    /\ call.soilNoise = 0
    /\ call.soilType \in {"clay", "sand", "loam", "rock"}

(***************************************************************************)
(* Page reload: the page is loaded again, createGame runs anew with the    *)
(* clock of the new page and a random source seeded afresh.  call keeps    *)
(* what the tile-info panel showed before: the step the old page was at    *)
(* and the elevation of each tile.                                         *)
(***************************************************************************)
Elevations(tiles) ==
    [y \in Idx(MapSize) |-> [x \in Idx(MapSize) |-> tiles[y][x].geology.elevation]]

PageReload ==
    /\ now' \in LoadTimes
    /\ \E seed \in Seeds : \E g \in {generateTerrain(InitialSimulation, now', seed)} :
         /\ heightmap' = g.heightmap
         /\ terrain' = g.terrain
         /\ simulation' = g.simulation
         /\ rng' = g.rng
    /\ restarts' = 0
    /\ view' = InitialView
    /\ call' = [op |-> "reload", step |-> simulation.step, before |-> Elevations(terrain)]

\* the page is left to run, no key is pressed
NextReload == ClockAdvance \/ GameLoop \/ PageReload

SpecReload == Init /\ [][NextReload]_vars

\* C9: two independent runs of the initial terrain generation, a page load
\* and a reload, report the same elevation for the same tile.
C9_GenerationDeterministic ==
    call.op = "reload" /\ call.step = 0 /\ simulation.step = 0 =>
        \A y \in Idx(MapSize) : \A x \in Idx(MapSize) :
            terrain[y][x].geology.elevation = call.before[y][x]

(***************************************************************************)
(* The presentation layer: the key, click and resize handlers that the     *)
(* listeners of createGame install, on the part of the state they own.     *)
(***************************************************************************)
\* the keys of interest: pause, restart, water, and a camera modifier
Keys == {" ", "r", "w", "z"}

\* window.innerWidth and innerHeight, before and after a resize
WindowSizes == {[width |-> 800, height |-> 600], [width |-> 1600, height |-> 1200]}

\* click positions relative to the canvas box, in pixels
ClickOffsets == {0, 1000}

\* number of simulation steps followed while the handlers run
MaxViewSteps == 1

\* handleKeyDown for a key with no simulation case, 'w' taking the switch
\* case of the pause key as well
handleKeyDownPausing(sim, v, key) ==
    [simulation |-> IF key = "w" THEN [sim EXCEPT !.isActive = ~sim.isActive] ELSE sim,
     view |-> IF key = "w" THEN [Pressed(v, key) EXCEPT !.showWater = ~v.showWater]
              ELSE Pressed(v, key)]

\* handleKeyDown for a key other than ' ' and 'r': the key is added to
\* keysPressed, 'w' flips showWater, the simulation record is spread unchanged
handleKeyDown(sim, v, key) ==
    [simulation |-> sim,
     view |-> IF key = "w" THEN [Pressed(v, key) EXCEPT !.showWater = ~v.showWater]
              ELSE Pressed(v, key)]

handleKeyUp(v, key) == [v EXCEPT !.keysPressed = @ \ {key}]

\* what updateTileInfo writes to the panel, of the fields the claims use
TileInfo(tile) ==
    [x |-> tile.x, y |-> tile.y, elevation |-> tile.geology.elevation,
     soilType |-> tile.geology.soilType, buildable |-> tile.buildable]

\* handleClick at offset (x, y) on a canvas of the given size
handleClick(tiles, mapSize, v, canvas, x, y) ==
    LET tileX == (x * mapSize) \div canvas.width
        tileY == (y * mapSize) \div canvas.height
    IN  IF tileY \in DOMAIN tiles /\ tileX \in DOMAIN tiles[tileY]
        THEN [v EXCEPT !.tileInfo = TileInfo(tiles[tileY][tileX])]
        ELSE v

KeyDown ==
    /\ \E key \in Keys \ {" ", "r"} : \E s \in {handleKeyDown(simulation, view, key)} :
         /\ simulation' = s.simulation
         /\ view' = s.view
         /\ call' = [op |-> "keydown", key |-> key]
    /\ UNCHANGED <<heightmap, terrain, now, rng, restarts>>

KeyUp ==
    /\ \E key \in Keys :
         /\ view' = handleKeyUp(view, key)
         /\ call' = Called("keyup")
    /\ UNCHANGED <<heightmap, terrain, simulation, now, rng, restarts>>

Click ==
    /\ \E x \in ClickOffsets : \E y \in ClickOffsets :
         /\ view' = handleClick(terrain, MapSize, view, view.canvas, x, y)
         /\ call' = Called("click")
    /\ UNCHANGED <<heightmap, terrain, simulation, now, rng, restarts>>

\* handleResize: the canvas takes the size of the window
Resize ==
    /\ \E size \in WindowSizes :
         /\ view' = [view EXCEPT !.canvas = size]
         /\ call' = Called("resize")
    /\ UNCHANGED <<heightmap, terrain, simulation, now, rng, restarts>>

\* the clock, followed for the first MaxViewSteps steps
ViewClockAdvance == simulation.step < MaxViewSteps /\ ClockAdvance

NextView ==
    \/ ViewClockAdvance
    \/ GameLoop
    \/ TogglePause
    \/ KeyDown
    \/ KeyUp
    \/ Click
    \/ Resize

SpecView == Init /\ [][NextView]_vars

\* C19: key-down of 'w' or of any key other than ' ' and 'r', key-up, click
\* and resize leave the simulation record, the heightfield and the tile grid
\* unchanged, and so does a frame that is not gated open (its camera and FPS
\* updates are all it does); a step that changes any of the three is the
\* pause toggle, a restart or a frame.
C19_PresentationNeverFeedsBack ==
    [][/\ (call'.op \in {"keydown", "keyup", "click", "resize"} =>
              UNCHANGED <<simulation, heightmap, terrain>>)
       /\ (/\ call'.op = "gameLoop"
           /\ ~(simulation.isActive /\ simulation.step < 50 /\ Elapsed > 200)
           => UNCHANGED <<simulation, heightmap, terrain>>)
       /\ (<<simulation, heightmap, terrain>>' # <<simulation, heightmap, terrain>> =>
              call'.op \in {"gameLoop", "keydown space", "keydown r"})]_vars

\* 'w' has just been pressed and has switched the water off, after a resize
\* and a click that filled the panel, one simulation step into a paused run
C19_Witness ==
    /\ call = [op |-> "keydown", key |-> "w"]
    /\ ~view.showWater
    /\ "z" \in view.keysPressed
    /\ view.canvas.width = 1600
    /\ view.tileInfo # <<>>
    /\ simulation.step = 1
    /\ ~simulation.isActive

\* C12: the buildable flag of every derived tile equals (stored elevation
\* < 50 and water table depth > 0.5): no tile whose stored elevation is 50
\* and no tile whose water table depth is exactly 0.5 is buildable.
C12_BuildableFromStoredElevation ==
    \A tile \in DerivedTiles :
        tile.buildable = (tile.geology.elevation < 50 /\ tile.geology.waterTableDepth > 5000)

\* C13: drainage, stability and excavation cost of every derived tile are
\* those of its soil type: SAND (0.9, 0.7, 1.5), CLAY (0.2, 0.4, 2),
\* LOAM (0.6, 0.7, 1.5), ROCK (0.6, 1.0, 4).
C13_SoilTable ==
    \A tile \in DerivedTiles :
        <<tile.geology.drainage, tile.geology.stability, tile.geology.excavationCost>> =
            CASE tile.geology.soilType = "sand" -> <<9000, 7000, 15000>>
              [] tile.geology.soilType = "clay" -> <<2000, 4000, 20000>>
              [] tile.geology.soilType = "loam" -> <<6000, 7000, 15000>>
              [] tile.geology.soilType = "rock" -> <<6000, 10000, 40000>>

\* a grid has been derived that holds tiles of SAND, of LOAM and of ROCK
C13_Witness ==
    /\ call.op = "heightmapToTerrain"
    /\ \A soil \in {"sand", "loam", "rock"} :
          \E tile \in DerivedTiles : tile.geology.soilType = soil

\* C14: generateRivers returns for every grid, and the cells each source's
\* trace visits start at the source, have strictly decreasing elevations,
\* are pairwise distinct and number at most size * size.
C14_RiverTracesDescend ==
    call.op = "generateRivers" =>
        \A k \in 1 .. Len(call.sources) :
            /\ Len(call.traces[k]) >= 1
            /\ Len(call.traces[k]) <= call.size * call.size
            /\ call.traces[k][1] = call.sources[k]
            /\ \A i \in 1 .. Len(call.traces[k]) - 1 :
                  call.traces[k][i + 1].elevation < call.traces[k][i].elevation
            /\ \A i \in 1 .. Len(call.traces[k]) : \A j \in 1 .. Len(call.traces[k]) :
                  /\ call.traces[k][i].x = call.traces[k][j].x
                  /\ call.traces[k][i].y = call.traces[k][j].y
                  => i = j

\* rivers have been traced from several sources of a grid, one of them over
\* four cells or more, another one ending where it began, on level ground
C14_Witness ==
    /\ call.op = "generateRivers"
    /\ Len(call.sources) >= 3
    /\ \E k \in 1 .. Len(call.sources) : Len(call.traces[k]) >= 4
    /\ \E k \in 1 .. Len(call.sources) :
          /\ Len(call.traces[k]) = 1
          /\ \E d \in {-1, 1} :
                /\ call.sources[k].x + d \in Idx(call.size)
                /\ call.from[call.sources[k].y][call.sources[k].x + d].geology.elevation
                     = call.sources[k].elevation


\* C15: a derived tile on LIMESTONE whose flint chance random(x * 200 +
\* y * 300 + 4) is above 0.85 has a FLINT resource with accessibility
\* 1 - excavationCost / 5, and a tile on any other bedrock has no FLINT.
C15_FlintOnLimestone ==
    \A tile \in DerivedTiles :
        /\ (/\ tile.geology.bedrockType = "limestone"
            /\ random(tile.x * 200 + tile.y * 300 + 4) > 8500
            => \E k \in 1 .. Len(tile.resources) :
                  /\ tile.resources[k].type = "flint"
                  /\ tile.resources[k].accessibility
                       = Scale - tile.geology.excavationCost \div 5)
        /\ (tile.geology.bedrockType # "limestone" => ~Has(tile.resources, "flint"))

\* a tile of ROCK on LIMESTONE has been built at a cell with flint chance
\* above 0.85: its FLINT has accessibility 1 - 4 / 5 = 0.2
C15_Witness ==
    /\ call.op = "tile"
    /\ call.tile.geology.bedrockType = "limestone"
    /\ call.tile.geology.excavationCost = 4 * Scale
    /\ random(call.tile.x * 200 + call.tile.y * 300 + 4) > 8500
    /\ \E k \in 1 .. Len(call.tile.resources) :
          /\ call.tile.resources[k].type = "flint"
          /\ call.tile.resources[k].accessibility = 2000


\* C16: the elevation of every tile the inspector can show is within
\* [10, 60]: every tile of the grid derived at generation and after each
\* simulation step, and every tile VibeCity.generateTile builds.
C16_InspectorElevationInRange ==
    /\ \A y \in DOMAIN terrain : \A x \in DOMAIN terrain[y] :
          terrain[y][x].geology.elevation \in 10 .. 60
    /\ (call.op = "generateTile" => call.tile.geology.elevation \in 10 .. 60)


C18_SmallSizeRejected ==
    call.op = "createHeightmap" => call.size >= 5


\* no step has run since generateTerrain: the heightfield is the one that
\* createHeightmap built from the MapSize * MapSize calls of Math.random
\* before the current state of the generator
FreshlyGenerated ==
    heightmap = createHeightmap(MapSize,
                    (rng + RngModulus - ((MapSize * MapSize) % RngModulus)) % RngModulus).h

\* C20: the step taken when the counter is k applies the pipe with intensity
\* 1 - k / maxSteps, which is above 0 and at most 1, is 0.02 for k = 49, is
\* below that of the step before, and is exactly 1.0 for the first step
\* after a generation.
C20_IntensityRamp ==
    [][(Tick /\ simulation'.step = simulation.step + 1) =>
          \E intensity \in {Scale - (simulation.step * Scale) \div maxSteps} :
              /\ heightmap' = SimulationStep(heightmap, MapSize, intensity, rng).h
              /\ intensity > 0
              /\ intensity <= Scale
              /\ (simulation.step = maxSteps - 1 => intensity = 200)
              /\ (~FreshlyGenerated =>
                     intensity < Scale - ((simulation.step - 1) * Scale) \div maxSteps)
              /\ (FreshlyGenerated => intensity = Scale)]_vars


\* the number of RIVER resources in a list of resources
Rivers(resources) == Cardinality({k \in 1 .. Len(resources) : resources[k].type = "river"})

\* cell (x, y) is on the trace of a source of the last call of generateRivers
Visited(x, y) ==
    \E k \in 1 .. Len(call.traces) : \E i \in 1 .. Len(call.traces[k]) :
        call.traces[k][i].x = x /\ call.traces[k][i].y = y

\* C21: after generateRivers every cell on the trace of a source carries
\* exactly one RIVER: a cell that had none gains one with abundance 0.9, not
\* seasonal, accessibility 0.95, a cell that had one keeps its list as it
\* was; a cell on no trace keeps its list, and no other field of any tile
\* changes.
C21_VisitedCellsCarryOneRiver ==
    call.op = "generateRivers" =>
        \A y \in Idx(call.size) : \A x \in Idx(call.size) :
            /\ [call.terrain[y][x] EXCEPT !.resources = call.from[y][x].resources]
                 = call.from[y][x]
            /\ IF Visited(x, y)
               THEN /\ Rivers(call.terrain[y][x].resources) = 1
                    /\ call.terrain[y][x].resources =
                         IF Has(call.from[y][x].resources, "river")
                         THEN call.from[y][x].resources
                         ELSE Append(call.from[y][x].resources,
                                     [type |-> "river", abundance |-> 9000,
                                      seasonal |-> FALSE, accessibility |-> 9500])
               ELSE call.terrain[y][x].resources = call.from[y][x].resources

\* rivers have been traced over a cell that had a RIVER of its own (abundance
\* 0.8), over a cell that had none, and past a cell that no trace visits
C21_Witness ==
    /\ call.op = "generateRivers"
    /\ \E y \in Idx(call.size) : \E x \in Idx(call.size) :
          /\ Visited(x, y)
          /\ Has(call.from[y][x].resources, "river")
          /\ Has(call.terrain[y][x].resources, "river")
    /\ \E y \in Idx(call.size) : \E x \in Idx(call.size) :
          Visited(x, y) /\ ~Has(call.from[y][x].resources, "river")
    /\ \E y \in Idx(call.size) : \E x \in Idx(call.size) :
          ~Visited(x, y) /\ ~Has(call.from[y][x].resources, "river")


\* C22: when applyThermalErosion applies a transfer, the height the losing
\* cell has at that moment exceeds the height the receiving neighbour has at
\* that moment by more than maxSlope (0.5), and the amount moved is (that
\* difference - 0.5) * erosionRate.
C22_TransfersGoDownhill ==
    call.op = "thermalCell" =>
        \A i \in 1 .. Len(call.transfers) :
            /\ call.transfers[i].loser - call.transfers[i].receiver > maxSlope
            /\ call.transfers[i].amount =
                 Transfer(call.transfers[i].loser - call.transfers[i].receiver)


\* C23: a drop at a non-border cell with no strictly lower neighbour puts all
\* the sediment it carries on that cell and stops; a drop that moves on
\* leaves with at most the capacity (2.0), what it picked up beyond that
\* being back on the cell it leaves; and a drop makes at most 30 moves.
C23_DropDepositsAndStops ==
    call.op = "drop" =>
        /\ Len(call.moves) <= 30
        /\ \A i \in 1 .. Len(call.moves) :
              /\ call.moves[i].moved = call.moves[i].lower
              /\ (~call.moves[i].lower =>
                    /\ i = Len(call.moves)
                    /\ call.moves[i].left = call.moves[i].height + call.moves[i].sediment
                    /\ call.h[call.moves[i].y][call.moves[i].x] = call.moves[i].left)
              /\ (call.moves[i].lower =>
                    /\ call.moves[i].carried <= 2 * Scale
                    /\ call.moves[i].carried >= call.moves[i].sediment
                    /\ call.moves[i].height - call.moves[i].left
                         = call.moves[i].carried - call.moves[i].sediment)

\* a drop has moved four times, has left its third cell with the capacity
\* of 2.0 after putting 1.0 back, and has put the 2.0 on the cell at the end
\* of the path, which has no lower neighbour
C23_Witness ==
    /\ call.op = "drop"
    /\ Len(call.moves) = 5
    /\ call.moves[3].sediment = 2 * Scale
    /\ call.moves[3].carried = 2 * Scale
    /\ call.moves[3].left = call.moves[3].height
    /\ ~call.moves[5].lower
    /\ call.moves[5].sediment = 2 * Scale
    /\ call.h[call.moves[5].y][call.moves[5].x] = call.from[call.moves[5].y][call.moves[5].x]
                                                    + 2 * Scale


\* C24: a force, and the pipe of a tick, returns a heightfield in rows of
\* its own and leaves every row the caller's heap held as it was, so that
\* the caller's array still holds the heightfield it held before the call;
\* the result of uplift differs from its input in interior cells
\* (2 <= x, y < size - 2) only.
C24_ForcesCopyOnWrite ==
    call.op = "onArrays" =>
        /\ \A ref \in 1 .. Len(call.caller.heap) :
              call.returned.heap[ref] = call.caller.heap[ref]
        /\ Deref([heap |-> call.returned.heap, array |-> call.caller.array]) = call.from
        /\ \A y \in Idx(call.size) : \A z \in Idx(call.size) :
              call.returned.array[y] # call.caller.array[z]
        /\ (call.force = "uplift" =>
              \A y \in Idx(call.size) : \A x \in Idx(call.size) :
                  Deref(call.returned)[y][x] # call.from[y][x] =>
                      x >= 2 /\ x < call.size - 2 /\ y >= 2 /\ y < call.size - 2)

\* the pipe of a tick has returned the heightfield of the simulation step,
\* which differs from the one the caller's array holds
C24_Witness ==
    /\ call.op = "onArrays"
    /\ call.force = "pipe"
    /\ Deref(call.returned) = SimulationStep(call.from, call.size, Intensity(0), rng).h
    /\ Deref(call.returned) # call.from
    /\ Deref([heap |-> call.returned.heap, array |-> call.caller.array]) = call.from


(***************************************************************************)
(* Liveness.  The simulation stays active (no pause toggle), the browser   *)
(* keeps calling gameLoop (requestAnimationFrame) and performance.now()    *)
(* keeps advancing: a frame that is due is taken, and so is a clock        *)
(* reading that is due.                                                    *)
(***************************************************************************)
NextLive == ClockAdvance \/ GameLoop \/ Restart

\* a frame changes the state when the last call was not a frame or when the
\* gate is open: ENABLED <<GameLoop>>_vars, written out
FrameDue == call # Called("gameLoop") \/ shouldSimulate(simulation, now)

\* weak fairness of the clock and of the frames; that of the frames is
\* WF_vars(GameLoop) with its ENABLED replaced by FrameDue
SpecLive ==
    /\ Init /\ [][NextLive]_vars
    /\ WF_vars(ClockAdvance)
    /\ ([]<>~FrameDue \/ []<><<GameLoop>>_vars)

\* C25: a state that generation or a restart has just left (no step since)
\* has the counter at 0, so that exactly maxSteps steps are applied to its
\* heightfield, and it leads to a state whose counter is maxSteps.
C25_RunsToDone ==
    /\ [](FreshlyGenerated => simulation.step = 0)
    /\ (FreshlyGenerated ~> (simulation.step = maxSteps))


\* C26: in every reachable state the tile grid is heightmapToTerrain of the
\* current heightfield, and only a step of a frame and a restart change the
\* heightfield or the tile grid.
C26_TilesDerivedFromHeightfield ==
    /\ [](terrain = heightmapToTerrain(heightmap, MapSize))
    /\ [][heightmap' # heightmap \/ terrain' # terrain =>
              \/ Tick /\ simulation'.step = simulation.step + 1
              \/ KeyRestart]_vars

\* a frame has taken a step, the tile grid is no longer the one the heightfield
\* of the generation gives, and a stored elevation is a rounded one
C26_Witness ==
    /\ call.op = "gameLoop"
    /\ simulation.step = 1
    /\ restarts = 0
    /\ terrain = heightmapToTerrain(heightmap, MapSize)
    /\ \A seed \in Seeds : terrain # generateTerrain(InitialSimulation, now, seed).terrain
    /\ \E x, y \in Idx(MapSize) : terrain[y][x].geology.elevation * Scale # heightmap[y][x]


(***************************************************************************)
(* The meshes.  state.buffers holds the terrain mesh and the water mesh    *)
(* the renderer draws; the view record carries them in the field buffers:  *)
(* per vertex the height and the colour, and the quads of the water mesh   *)
(* (null when there is none).                                              *)
(***************************************************************************)
heightScale == 2
waterLevel == 35

\* the resource types in the order getResourceColor tests them, and the
\* colour it returns for each, in tenths
ColorOrder ==
    <<"river", "spring", "seasonal_stream", "berries", "nuts", "edible_plants",
      "hardwood", "softwood", "obsidian", "flint", "clay_deposit", "cave",
      "rock_shelter", "game_trail">>

ResourceColors ==
    <<<<1, 6, 10>>, <<4, 8, 10>>, <<6, 9, 10>>, <<2, 10, 6>>, <<4, 10, 7>>, <<1, 9, 5>>,
      <<0, 8, 4>>, <<2, 9, 6>>, <<2, 2, 3>>, <<7, 7, 5>>, <<8, 5, 3>>, <<6, 4, 2>>,
      <<7, 6, 4>>, <<10, 9, 3>>>>

getResourceColor(tile) ==
    LET found == {k \in 1 .. Len(ColorOrder) : Has(tile.resources, ColorOrder[k])}
    IN  IF found = {} THEN <<6, 6, 6>>
        ELSE ResourceColors[CHOOSE k \in found : \A j \in found : k <= j]

\* the vertex data of createTerrainMesh
TerrainVertices(h, tiles, mapSize) ==
    [y \in Idx(mapSize) |->
        [x \in Idx(mapSize) |->
            LET height == h[y][x] * heightScale
            IN  [height |-> height,
                 color |-> IF height < waterLevel * Scale * heightScale
                           THEN <<3, 3, 10>>
                           ELSE getResourceColor(tiles[y][x])]]]

createTerrainMesh(buffers, h, tiles, mapSize) ==
    [buffers EXCEPT !.vertex = TerrainVertices(h, tiles, mapSize)]

NoWater == [present |-> FALSE, quads |-> {}]

\* the quads of createWaterMesh: a corner is below the water level
WaterQuads(h, mapSize) ==
    {q \in (0 .. mapSize - 2) \X (0 .. mapSize - 2) :
        \E dx, dy \in {0, 1} : h[q[2] + dy][q[1] + dx] < waterLevel * Scale}

createWaterMesh(buffers, h, mapSize, showWater) ==
    IF ~showWater THEN [buffers EXCEPT !.water = NoWater]
    ELSE IF WaterQuads(h, mapSize) # {}
    THEN [buffers EXCEPT !.water = [present |-> TRUE, quads |-> WaterQuads(h, mapSize)]]
    ELSE buffers

\* createTerrainMesh, then createWaterMesh
Meshes(buffers, h, tiles, mapSize, showWater) ==
    createWaterMesh(createTerrainMesh(buffers, h, tiles, mapSize), h, mapSize, showWater)

\* the buffers of createInitialState
InitialBuffers == [vertex |-> <<>>, water |-> NoWater]

\* createGame: generateTerrain, createTerrainMesh, createWaterMesh
InitMesh ==
    /\ now \in LoadTimes
    /\ \E seed \in Seeds : \E g \in {generateTerrain(InitialSimulation, now, seed)} :
         /\ heightmap = g.heightmap
         /\ terrain = g.terrain
         /\ simulation = g.simulation
         /\ rng = g.rng
         /\ view = InitialView @@
                     [buffers |-> Meshes(InitialBuffers, g.heightmap, g.terrain, MapSize,
                                         InitialView.showWater)]
    /\ restarts = 0
    /\ call = Called("createGame")

\* gameLoop: updateGeologicalSimulation, then the meshes when the step
\* counter has grown, then render
MeshFrame ==
    /\ IF shouldSimulate(simulation, now)
       THEN \E u \in {updateGeologicalSimulation(heightmap, simulation, now, rng)} :
                /\ heightmap' = u.heightmap
                /\ terrain' = u.terrain
                /\ simulation' = u.simulation
                /\ rng' = u.rng
                /\ view' = [view EXCEPT !.buffers =
                               Meshes(@, u.heightmap, u.terrain, MapSize, view.showWater)]
       ELSE UNCHANGED <<heightmap, terrain, simulation, rng, view>>
    /\ call' = Called("gameLoop")
    /\ UNCHANGED <<now, restarts>>

\* the 'w' key, pressed at the steps of RestartSteps
WaterToggle ==
    /\ simulation.step \in RestartSteps
    /\ \E s \in {handleKeyDown(simulation, view, "w")} :
         /\ simulation' = s.simulation
         /\ view' = s.view
         /\ call' = [op |-> "keydown", key |-> "w"]
    /\ UNCHANGED <<heightmap, terrain, now, rng, restarts>>

NextMesh == ClockAdvance \/ MeshFrame \/ TogglePause \/ Restart \/ WaterToggle

SpecMesh == InitMesh /\ [][NextMesh]_vars

\* C27: after every frame the terrain mesh and the water mesh are the ones
\* createTerrainMesh and createWaterMesh build from the current heightfield,
\* tile grid and showWater flag.
C27_MeshesAreCurrent ==
    call.op = "gameLoop" =>
        view.buffers = Meshes(InitialBuffers, heightmap, terrain, MapSize, view.showWater)


\* C28: in every reachable state whose step counter is at least 1 the
\* 2-ring border of the heightfield is smoothed.
C28_BorderSmoothedAfterFirstStep ==
    simulation.step >= 1 => EdgesSmoothed(heightmap, MapSize)


Vegetation == {"berries", "nuts", "edible_plants", "hardwood", "softwood"}

\* C29: every derived tile whose stored elevation is at least 46 has soil
\* type ROCK and carries none of BERRIES, NUTS, EDIBLE_PLANTS, HARDWOOD and
\* SOFTWOOD.
C29_RockFromElevation46 ==
    \A tile \in DerivedTiles :
        tile.geology.elevation >= 46 =>
            /\ tile.geology.soilType = "rock"
            /\ \A type \in Vegetation : ~Has(tile.resources, type)

\* a tile derived from the height 45.5, stored as 46: ROCK, with resources
C29_Witness ==
    /\ call.op = "tile"
    /\ call.height = 45 * Scale + 5000
    /\ call.tile.geology.elevation = 46
    /\ call.tile.geology.soilType = "rock"
    /\ call.tile.resources # <<>>


\* the lowest height of a heightfield
Lowest(h, size) ==
    CHOOSE v \in {h[y][x] : x \in Idx(size), y \in Idx(size)} :
        \A x \in Idx(size), y \in Idx(size) : v <= h[y][x]

\* C30: applyHydraulicErosion and applyThermalErosion return no cell below
\* the lowest cell of their input; a drop leaves no cell below the lowest
\* neighbour it had, and the visit of a cell by thermal erosion that lowers
\* the cell leaves it no lower than its lowest neighbour.
C30_ErosionKeepsMinimum ==
    /\ (call.op = "onArrays" /\ call.force \in {"hydraulic", "thermal"} =>
           \A floor \in {Lowest(call.from, call.size)} :
               \A x \in Idx(call.size), y \in Idx(call.size) :
                   Deref(call.returned)[y][x] >= floor)
    /\ (call.op = "drop" =>
           /\ \A floor \in {Lowest(call.from, call.size)} :
                  \A x \in Idx(call.size), y \in Idx(call.size) : call.h[y][x] >= floor
           /\ \A i \in 1 .. Len(call.moves) : call.moves[i].left >= call.moves[i].lowest)
    /\ (call.op = "thermalCell" =>
           /\ \A floor \in {Lowest(call.from, call.size)} :
                  \A x \in Idx(call.size), y \in Idx(call.size) : call.h[y][x] >= floor
           /\ (call.h[2][2] < call.from[2][2] =>
                  \E dx, dy \in {-1, 0, 1} :
                      /\ <<dx, dy>> # <<0, 0>>
                      /\ call.h[2][2] >= call.h[2 + dy][2 + dx]))

\* the visit of a peak by thermal erosion has moved material to all of its
\* eight neighbours and has left it above the lowest of them
C30_Witness ==
    /\ call.op = "thermalCell"
    /\ Len(call.transfers) = 8
    /\ call.h[2][2] < call.from[2][2]
    /\ call.h[2][2] > call.h[1][1]
    /\ call.h[1][1] > call.from[1][1]
    /\ call.from[1][1] = Lowest(call.from, call.size)

====
